---- MODULE Spec2Model ----
(***************************************************************************)
(* Model of content/notebooks/grid_plotter.py: the cube-face builders      *)
(* (plot_surface_xy / _yz / _xz, plot_cube) as operators, and grid_plotter *)
(* as a sequential process whose steps are its tree-accessor calls and its *)
(* plot_surface calls.                                                     *)
(*                                                                         *)
(* Coordinates are integers (exact arithmetic).  A 2x2 numpy array is a    *)
(* sequence of two rows, each a sequence of two numbers; Python's 0-based  *)
(* index i is position i+1 of a TLA+ sequence.                             *)
(***************************************************************************)
EXTENDS Integers, Sequences, FiniteSets

VARIABLES
    \* ---- grid_plotter(tree)
    tree,       \* the argument: the sequence of leaf nodes, each [lo, up]
    pc,         \* position in grid_plotter
    n,          \* value of the last tree.nEndNodes() call (the range's stop)
    i,          \* loop / comprehension variable
    node,       \* the leaf returned by the last tree.fetchEndNode(i)
    hi,         \* upperBounds()[0] of line 56, held while the right operand runs
    corners,    \* list built at line 54
    lengths,    \* list built at lines 55-58
    data,       \* plot_cube's result at line 61
    k,          \* number of faces of data already drawn (inner for, line 62)
    draws,      \* the ax.plot_surface calls issued so far, in order
    accCalls,   \* number of tree accessor calls made so far
    thrown,     \* what a tree accessor raised ("none" while none has)
    outcome,    \* how grid_plotter ended: "running", "returned" or an exception
    \* ---- direct calls of the face builders
    corner,     \* the corner argument
    length,     \* the length argument
    rxy,        \* result of plot_surface_xy(...)
    ryz,        \* result of plot_surface_yz(...)
    rxz,        \* result of plot_surface_xz(...)
    rcube       \* result of plot_cube(corner, length)

plotterVars == <<tree, pc, n, i, node, hi, corners, lengths, data, k, draws,
                 accCalls, thrown, outcome>>
cubeVars == <<corner, length, rxy, ryz, rxz, rcube>>
vars == <<tree, pc, n, i, node, hi, corners, lengths, data, k, draws,
          accCalls, thrown, outcome, corner, length, rxy, ryz, rxz, rcube>>

\* ------------------------------------------------------------------ bounds
MaxCoord == 2       \* corner coordinates range over 0..MaxCoord
MaxLen == 2         \* edge lengths range over 0..MaxLen
MaxLeaves == 2      \* a tree has at most MaxLeaves leaves

Coords == 0..MaxCoord
Corners == {<<x, y, z>> : x \in Coords, y \in Coords, z \in Coords}
Lengths == 0..MaxLen

\* Leaf nodes the trees are built from: the unit cube of the end-to-end
\* example, a cell with the same corner and x-extent but other y and z
\* extents, a non-cubic cell, a cell of zero x-extent and a shifted cube.
SampleLeaves ==
    { [lo |-> <<0, 0, 0>>, up |-> <<1, 1, 1>>],
      [lo |-> <<0, 0, 0>>, up |-> <<1, 2, 3>>],
      [lo |-> <<0, 1, 2>>, up |-> <<2, 2, 5>>],
      [lo |-> <<1, 0, 2>>, up |-> <<1, 3, 2>>],
      [lo |-> <<2, 1, 0>>, up |-> <<3, 2, 1>>] }

Trees == UNION {[1..m -> SampleLeaves] : m \in 0..MaxLeaves}

Exceptions == {"RuntimeError", "IndexError"}

None == <<>>

\* ------------------------------------------------------------ numpy helper
\* A plausible slip: the second grid is not transposed.
MeshGridNoTranspose(xs, ys) ==
    << [r \in 1..Len(ys) |-> [c \in 1..Len(xs) |-> xs[c]]],
       [r \in 1..Len(ys) |-> [c \in 1..Len(xs) |-> ys[c]]] >>

\* np.meshgrid(xs, ys) with the default indexing='xy':
\* both grids have Len(ys) rows and Len(xs) columns, X[r][c] = xs[c], Y[r][c] = ys[r].
MeshGrid(xs, ys) ==
    << [r \in 1..Len(ys) |-> [c \in 1..Len(xs) |-> xs[c]]],
       [r \in 1..Len(ys) |-> [c \in 1..Len(xs) |-> ys[r]]] >>

\* ------------------------------------------------------------ face builders
\* A plausible slip: the high face reuses z instead of z + length.
plot_surface_xy_samez(x, y, z, len) ==
    LET rx == <<x, x + len>>
        ry == <<y, y + len>>
        XY == MeshGrid(rx, ry)
        r_1 == <<z, z>>
        p1 == MeshGrid(r_1, r_1)[1]
    IN  << <<XY[1], XY[2], p1>>, <<XY[1], XY[2], p1>> >>

plot_surface_xy(x, y, z, len) ==
    LET rx == <<x, x + len>>
        ry == <<y, y + len>>
        XY == MeshGrid(rx, ry)
        r_1 == <<z, z>>
        r_2 == <<z + len, z + len>>
        p1 == MeshGrid(r_1, r_1)[1]
        p2 == MeshGrid(r_2, r_2)[1]
    IN  << <<XY[1], XY[2], p1>>, <<XY[1], XY[2], p2>> >>

\* A plausible slip: the meshgrid arguments are given in the other order.
plot_surface_yz_swapped(x, y, z, len) ==
    LET ry == <<y, y + len>>
        rz == <<z, z + len>>
        YZ == MeshGrid(rz, ry)
        r_1 == <<x, x>>
        r_2 == <<x + len, x + len>>
        p1 == MeshGrid(r_1, r_1)[1]
        p2 == MeshGrid(r_2, r_2)[1]
    IN  << <<p1, YZ[1], YZ[2]>>, <<p2, YZ[1], YZ[2]>> >>

plot_surface_yz(x, y, z, len) ==
    LET ry == <<y, y + len>>
        rz == <<z, z + len>>
        YZ == MeshGrid(ry, rz)
        r_1 == <<x, x>>
        r_2 == <<x + len, x + len>>
        p1 == MeshGrid(r_1, r_1)[1]
        p2 == MeshGrid(r_2, r_2)[1]
    IN  << <<p1, YZ[1], YZ[2]>>, <<p2, YZ[1], YZ[2]>> >>

\* A plausible slip: the default length 1.0 is used for the high face.
plot_surface_xz_unit(x, y, z, len) ==
    LET rx == <<x, x + len>>
        rz == <<z, z + len>>
        XZ == MeshGrid(rx, rz)
        r_1 == <<y, y>>
        r_2 == <<y + 1, y + 1>>
        p1 == MeshGrid(r_1, r_1)[1]
        p2 == MeshGrid(r_2, r_2)[1]
    IN  << <<XZ[1], p1, XZ[2]>>, <<XZ[1], p2, XZ[2]>> >>

plot_surface_xz(x, y, z, len) ==
    LET rx == <<x, x + len>>
        rz == <<z, z + len>>
        XZ == MeshGrid(rx, rz)
        r_1 == <<y, y>>
        r_2 == <<y + len, y + len>>
        p1 == MeshGrid(r_1, r_1)[1]
        p2 == MeshGrid(r_2, r_2)[1]
    IN  << <<XZ[1], p1, XZ[2]>>, <<XZ[1], p2, XZ[2]>> >>

\* A plausible slip: the pairs are returned in another order.
plot_cube_reordered(cnr, len) ==
    LET x == cnr[1]
        y == cnr[2]
        z == cnr[3]
        ab == plot_surface_xy(x, y, z, len)
        cd == plot_surface_yz(x, y, z, len)
        ef == plot_surface_xz(x, y, z, len)
    IN  <<ab[1], ab[2], ef[1], ef[2], cd[1], cd[2]>>

plot_cube(cnr, len) ==
    LET x == cnr[1]
        y == cnr[2]
        z == cnr[3]
        ab == plot_surface_xy(x, y, z, len)
        cd == plot_surface_yz(x, y, z, len)
        ef == plot_surface_xz(x, y, z, len)
    IN  <<ab[1], ab[2], cd[1], cd[2], ef[1], ef[2]>>

\* ------------------------------------------------- direct calls (SpecCube)
InitCube ==
    /\ corner \in Corners
    /\ length \in Lengths
    /\ rxy = None /\ ryz = None /\ rxz = None /\ rcube = None
    /\ tree = <<>> /\ pc = "idle" /\ n = 0 /\ i = 0 /\ node = None /\ hi = 0
    /\ corners = <<>> /\ lengths = <<>> /\ data = <<>> /\ k = 0
    /\ draws = <<>> /\ accCalls = 0 /\ thrown = "none" /\ outcome = "running"

CallSurfaceXY ==
    /\ rxy = None
    /\ rxy' = plot_surface_xy(corner[1], corner[2], corner[3], length)
    /\ UNCHANGED <<corner, length, ryz, rxz, rcube>>
    /\ UNCHANGED plotterVars

CallSurfaceYZ ==
    /\ ryz = None
    /\ ryz' = plot_surface_yz(corner[1], corner[2], corner[3], length)
    /\ UNCHANGED <<corner, length, rxy, rxz, rcube>>
    /\ UNCHANGED plotterVars

CallSurfaceXZ ==
    /\ rxz = None
    /\ rxz' = plot_surface_xz(corner[1], corner[2], corner[3], length)
    /\ UNCHANGED <<corner, length, rxy, ryz, rcube>>
    /\ UNCHANGED plotterVars

CallCube ==
    /\ rcube = None
    /\ rcube' = plot_cube(corner, length)
    /\ UNCHANGED <<corner, length, rxy, ryz, rxz>>
    /\ UNCHANGED plotterVars

NextCube == CallSurfaceXY \/ CallSurfaceYZ \/ CallSurfaceXZ \/ CallCube

SpecCube == InitCube /\ [][NextCube]_vars

\* ------------------------------------------------------- the external tree
nEndNodes(t) == Len(t)
fetchEndNode(t, idx) == t[idx + 1]
lowerBounds(nd) == nd.lo
upperBounds(nd) == nd.up

\* ------------------------------------------------------------ grid_plotter
\* A plausible slip: the range stops one short.
InRangeShort(idx, stop) == idx < stop - 1

\* i in range(stop), i counting up from 0
InRange(idx, stop) == idx < stop

\* A plausible slip: the lower bound of the wrong axis is subtracted.
lengthOfY(h, lb) == h - lb[2]

\* upperBounds()[0] - lowerBounds()[0], the left operand already evaluated to h
lengthOf(h, lb) == h - lb[1]

\* A plausible slip: the faces are drawn back to front.
NextFaceReversed(d, kk) == d[Len(d) - kk]

\* the kk-th iteration (0-based) of "for d in data"
NextFace(d, kk) == d[kk + 1]

\* A plausible variant: a while loop that asks the tree again after every cube.
LoopBackRecount == "draw_n"

\* where the outer for loop continues after a cube's faces: range() was
\* evaluated once, so the loop head does not call the tree again
LoopBack == "draw"

\* A plausible variant: a handler that wraps whatever was raised.
PropagateWrapped(e) == "RuntimeError"

\* grid_plotter has no try/except: an exception leaves it as raised
Propagate(e) == e

Init ==
    /\ tree \in Trees
    /\ pc = "start" /\ n = 0 /\ i = 0 /\ node = None /\ hi = 0
    /\ corners = <<>> /\ lengths = <<>> /\ data = <<>> /\ k = 0
    /\ draws = <<>> /\ accCalls = 0 /\ thrown = "none" /\ outcome = "running"
    /\ corner = None /\ length = 0
    /\ rxy = None /\ ryz = None /\ rxz = None /\ rcube = None

\* a tree accessor raises: the call counts, grid_plotter unwinds
Raises(rest) ==
    \E e \in Exceptions :
        /\ accCalls' = accCalls + 1
        /\ thrown' = e
        /\ outcome' = Propagate(e)
        /\ pc' = "raised"
        /\ UNCHANGED rest

\* a tree.nEndNodes() call at position from; on return the loop starts at to
CallNEndNodes(from, to) ==
    /\ pc = from
    /\ \/ /\ accCalls' = accCalls + 1
          /\ n' = nEndNodes(tree)
          /\ i' = 0
          /\ pc' = to
          /\ UNCHANGED <<tree, node, hi, corners, lengths, data, k, draws,
                         thrown, outcome>>
       \/ Raises(<<tree, n, i, node, hi, corners, lengths, data, k, draws>>)
    /\ UNCHANGED cubeVars

\* a tree.fetchEndNode(i) call at position from
CallFetchEndNode(from, to) ==
    /\ pc = from
    /\ \/ /\ accCalls' = accCalls + 1
          /\ node' = fetchEndNode(tree, i)
          /\ pc' = to
          /\ UNCHANGED <<tree, n, i, hi, corners, lengths, data, k, draws,
                         thrown, outcome>>
       \/ Raises(<<tree, n, i, node, hi, corners, lengths, data, k, draws>>)
    /\ UNCHANGED cubeVars

\* line 54: range(tree.nEndNodes())
CornersCount == CallNEndNodes("start", "corners")

\* line 54: tree.fetchEndNode(i)
CornersFetch ==
    /\ InRange(i, n)
    /\ CallFetchEndNode("corners", "corners_lb")

\* line 54: .lowerBounds(), the element is appended
CornersLower ==
    /\ pc = "corners_lb"
    /\ \/ /\ accCalls' = accCalls + 1
          /\ corners' = Append(corners, lowerBounds(node))
          /\ i' = i + 1
          /\ pc' = "corners"
          /\ UNCHANGED <<tree, n, node, hi, lengths, data, k, draws,
                         thrown, outcome>>
       \/ Raises(<<tree, n, i, node, hi, corners, lengths, data, k, draws>>)
    /\ UNCHANGED cubeVars

\* line 54: the comprehension is exhausted
CornersEnd ==
    /\ pc = "corners"
    /\ ~InRange(i, n)
    /\ pc' = "lengths_n"
    /\ UNCHANGED <<tree, n, i, node, hi, corners, lengths, data, k, draws,
                   accCalls, thrown, outcome>>
    /\ UNCHANGED cubeVars

\* line 57: range(tree.nEndNodes())
LengthsCount == CallNEndNodes("lengths_n", "lengths")

\* line 56: tree.fetchEndNode(i) of the left operand
LengthsFetchUpper ==
    /\ InRange(i, n)
    /\ CallFetchEndNode("lengths", "lengths_ub")

\* line 56: .upperBounds()[0]
LengthsUpper ==
    /\ pc = "lengths_ub"
    /\ \/ /\ accCalls' = accCalls + 1
          /\ hi' = upperBounds(node)[1]
          /\ pc' = "lengths_fetch"
          /\ UNCHANGED <<tree, n, i, node, corners, lengths, data, k, draws,
                         thrown, outcome>>
       \/ Raises(<<tree, n, i, node, hi, corners, lengths, data, k, draws>>)
    /\ UNCHANGED cubeVars

\* line 56: tree.fetchEndNode(i) of the right operand
LengthsFetchLower == CallFetchEndNode("lengths_fetch", "lengths_lb")

\* line 56: .lowerBounds()[0], the difference is appended
LengthsLower ==
    /\ pc = "lengths_lb"
    /\ \/ /\ accCalls' = accCalls + 1
          /\ lengths' = Append(lengths, lengthOf(hi, lowerBounds(node)))
          /\ i' = i + 1
          /\ pc' = "lengths"
          /\ UNCHANGED <<tree, n, node, hi, corners, data, k, draws,
                         thrown, outcome>>
       \/ Raises(<<tree, n, i, node, hi, corners, lengths, data, k, draws>>)
    /\ UNCHANGED cubeVars

\* lines 55-58: the comprehension is exhausted
LengthsEnd ==
    /\ pc = "lengths"
    /\ ~InRange(i, n)
    /\ pc' = "draw_n"
    /\ UNCHANGED <<tree, n, i, node, hi, corners, lengths, data, k, draws,
                   accCalls, thrown, outcome>>
    /\ UNCHANGED cubeVars

\* line 60: range(tree.nEndNodes())
DrawCount == CallNEndNodes("draw_n", "draw")

\* line 61: data = plot_cube(corners[i], lengths[i])
DrawCube ==
    /\ pc = "draw"
    /\ InRange(i, n)
    /\ data' = plot_cube(corners[i + 1], lengths[i + 1])
    /\ k' = 0
    /\ pc' = "faces"
    /\ UNCHANGED <<tree, n, i, node, hi, corners, lengths, draws,
                   accCalls, thrown, outcome>>
    /\ UNCHANGED cubeVars

\* lines 62-63: ax.plot_surface(d[0], d[1], d[2], ...)
PlotSurface ==
    /\ pc = "faces"
    /\ k < Len(data)
    /\ LET d == NextFace(data, k)
       IN  draws' = Append(draws, <<d[1], d[2], d[3]>>)
    /\ k' = k + 1
    /\ UNCHANGED <<tree, pc, n, i, node, hi, corners, lengths, data,
                   accCalls, thrown, outcome>>
    /\ UNCHANGED cubeVars

\* line 62: data is exhausted, the outer loop takes the next i
FacesEnd ==
    /\ pc = "faces"
    /\ k = Len(data)
    /\ i' = i + 1
    /\ pc' = LoopBack
    /\ UNCHANGED <<tree, n, node, hi, corners, lengths, data, k, draws,
                   accCalls, thrown, outcome>>
    /\ UNCHANGED cubeVars

\* line 60: the range is exhausted, grid_plotter returns
DrawEnd ==
    /\ pc = "draw"
    /\ ~InRange(i, n)
    /\ pc' = "done"
    /\ outcome' = "returned"
    /\ UNCHANGED <<tree, n, i, node, hi, corners, lengths, data, k, draws,
                   accCalls, thrown>>
    /\ UNCHANGED cubeVars

Next ==
    \/ CornersCount \/ CornersFetch \/ CornersLower \/ CornersEnd
    \/ LengthsCount \/ LengthsFetchUpper \/ LengthsUpper
    \/ LengthsFetchLower \/ LengthsLower \/ LengthsEnd
    \/ DrawCount \/ DrawCube \/ PlotSurface \/ FacesEnd \/ DrawEnd

Spec == Init /\ [][Next]_vars

\* ------------------------------------------------------------ vocabulary
IsGrid(g) == DOMAIN g = 1..2 /\ \A r \in 1..2 : DOMAIN g[r] = 1..2
IsFace(f) == DOMAIN f = 1..3 /\ \A a \in 1..3 : IsGrid(f[a])
IsConst(g, v) == \A r \in 1..2, c \in 1..2 : g[r][c] = v
Values(g) == {g[r][c] : r \in 1..2, c \in 1..2}
Points(f) == {<<f[1][r][c], f[2][r][c], f[3][r][c]>> : r \in 1..2, c \in 1..2}
Vertices(cnr, len) ==
    {<<vx, vy, vz>> : vx \in {cnr[1], cnr[1] + len},
                      vy \in {cnr[2], cnr[2] + len},
                      vz \in {cnr[3], cnr[3] + len}}
\* the six faces the code is to draw for a leaf: the x-extent is the edge
LeafCube(lf) == plot_cube(lf.lo, lf.up[1] - lf.lo[1])
UnitLeaf == [lo |-> <<0, 0, 0>>, up |-> <<1, 1, 1>>]

\* ------------------------------------------------------------------ claims

\* C1: with a tree of N leaves whose accessors do not raise, grid_plotter
\* returns after exactly 6*N plot_surface calls (none for N = 0), and never
\* issues more than 6*N.
C1_SixDrawsPerLeaf ==
    /\ Len(draws) <= 6 * nEndNodes(tree)
    /\ pc = "done" =>
          /\ thrown = "none"
          /\ outcome = "returned"
          /\ Len(draws) = 6 * nEndNodes(tree)

C1_Witness == pc = "done" /\ nEndNodes(tree) = 2 /\ Len(draws) = 12

\* C2: the six faces drawn for leaf j are plot_cube(lowerBounds, x-extent):
\* the y and z extents drawn are the x-extent, whatever upperBounds()[1] and
\* upperBounds()[2] are; the unit leaf draws grids with values in {0, 1}.
C2_DrawsAreCubeOfXExtent ==
    \A j \in 1..Len(tree) :
        6 * j <= Len(draws) =>
            LET six == SubSeq(draws, 6 * (j - 1) + 1, 6 * j)
                len == tree[j].up[1] - tree[j].lo[1]
            IN  /\ six = plot_cube(tree[j].lo, len)
                /\ \A f \in 1..6 :
                      /\ Values(six[f][2]) \subseteq {tree[j].lo[2], tree[j].lo[2] + len}
                      /\ Values(six[f][3]) \subseteq {tree[j].lo[3], tree[j].lo[3] + len}
                /\ tree[j] = UnitLeaf =>
                      \A f \in 1..6, a \in 1..3 : Values(six[f][a]) \subseteq {0, 1}
                /\ \A j2 \in 1..Len(tree) :
                      (/\ 6 * j2 <= Len(draws)
                       /\ tree[j2].lo = tree[j].lo
                       /\ tree[j2].up[1] = tree[j].up[1])
                      => SubSeq(draws, 6 * (j2 - 1) + 1, 6 * j2) = six

C2_Witness ==
    /\ pc = "done"
    /\ Len(draws) = 12
    /\ tree[1] = UnitLeaf
    /\ tree[2].lo = tree[1].lo /\ tree[2].up[1] = tree[1].up[1]
    /\ tree[2].up[2] # tree[1].up[2] /\ tree[2].up[3] # tree[1].up[3]

\* C3: plot_cube(c, L) with L >= 0 returns 6 faces, each three 2x2 grids, in
\* the order XY-low, XY-high, YZ-low, YZ-high, XZ-low, XZ-high.
C3_CubeFaceOrder ==
    (rcube # None /\ length >= 0) =>
        LET x == corner[1]
            y == corner[2]
            z == corner[3]
            xs == {x, x + length}
            ys == {y, y + length}
            zs == {z, z + length}
        IN  /\ DOMAIN rcube = 1..6
            /\ \A f \in 1..6 : IsFace(rcube[f])
            /\ IsConst(rcube[1][3], z) /\ IsConst(rcube[2][3], z + length)
            /\ \A f \in {1, 2} : Values(rcube[f][1]) = xs /\ Values(rcube[f][2]) = ys
            /\ IsConst(rcube[3][1], x) /\ IsConst(rcube[4][1], x + length)
            /\ \A f \in {3, 4} : Values(rcube[f][2]) = ys /\ Values(rcube[f][3]) = zs
            /\ IsConst(rcube[5][2], y) /\ IsConst(rcube[6][2], y + length)
            /\ \A f \in {5, 6} : Values(rcube[f][1]) = xs /\ Values(rcube[f][3]) = zs

C3_Witness == rcube # None /\ corner = <<0, 1, 2>> /\ length = 1

\* C4: plot_surface_xy returns two faces; Z is c.z everywhere in the first and
\* c.z + L everywhere in the second; X takes exactly {c.x, c.x+L} and Y exactly
\* {c.y, c.y+L} in both.
C4_SurfaceXY ==
    (rxy # None /\ length >= 0) =>
        /\ DOMAIN rxy = 1..2
        /\ \A f \in 1..2 :
              /\ IsFace(rxy[f])
              /\ Values(rxy[f][1]) = {corner[1], corner[1] + length}
              /\ Values(rxy[f][2]) = {corner[2], corner[2] + length}
        /\ IsConst(rxy[1][3], corner[3])
        /\ IsConst(rxy[2][3], corner[3] + length)

C4_Witness == rxy # None /\ corner = <<2, 0, 1>> /\ length = 2

\* C5: plot_surface_yz returns two faces with X constant c.x and c.x + L, Y over
\* {c.y, c.y+L}, Z over {c.z, c.z+L}; plot_surface_xz returns two faces with Y
\* constant c.y and c.y + L, X over {c.x, c.x+L}, Z over {c.z, c.z+L}.
C5_SurfaceYZandXZ ==
    /\ (ryz # None /\ length >= 0) =>
          /\ DOMAIN ryz = 1..2
          /\ \A f \in 1..2 :
                /\ IsFace(ryz[f])
                /\ Values(ryz[f][2]) = {corner[2], corner[2] + length}
                /\ Values(ryz[f][3]) = {corner[3], corner[3] + length}
          /\ IsConst(ryz[1][1], corner[1])
          /\ IsConst(ryz[2][1], corner[1] + length)
    /\ (rxz # None /\ length >= 0) =>
          /\ DOMAIN rxz = 1..2
          /\ \A f \in 1..2 :
                /\ IsFace(rxz[f])
                /\ Values(rxz[f][1]) = {corner[1], corner[1] + length}
                /\ Values(rxz[f][3]) = {corner[3], corner[3] + length}
          /\ IsConst(rxz[1][2], corner[2])
          /\ IsConst(rxz[2][2], corner[2] + length)

C5_Witness ==
    ryz # None /\ rxz # None /\ corner = <<1, 2, 0>> /\ length = 1

\* C6: when a tree accessor raises, grid_plotter ends with that very exception
\* and makes no accessor call and no plot_surface call afterwards.
C6_ExceptionPropagates ==
    /\ [](thrown # "none" => (pc = "raised" /\ outcome = thrown))
    /\ [][thrown # "none" =>
            (accCalls' = accCalls /\ draws' = draws /\ outcome' = outcome)]_vars

C6_Witness ==
    /\ pc = "raised" /\ thrown = "IndexError" /\ outcome = "IndexError"
    /\ Len(corners) = 2 /\ Len(lengths) = 1

\* C7: every plot_surface call appends one draw; the m-th draw (from 0) is
\* face m mod 6 of plot_cube for leaf m div 6, computed from that leaf's
\* bounds alone: leaves ascending, the six faces of a leaf consecutive.
C7_DrawOrder ==
    [][draws' # draws =>
          LET m == Len(draws)
              j == (m \div 6) + 1
              f == (m % 6) + 1
          IN  /\ Len(draws') = m + 1
              /\ SubSeq(draws', 1, m) = draws
              /\ j <= Len(tree)
              /\ draws'[m + 1] = LeafCube(tree[j])[f]]_vars

C7_Witness ==
    /\ Len(tree) = 2 /\ tree[1] # tree[2]
    /\ Len(draws) = 12 /\ pc = "done"

\* C8: plot_cube(c, 0) returns six well-formed faces, each with X constant
\* c.x, Y constant c.y and Z constant c.z; the faces of a pair are equal.
C8_ZeroLengthCube ==
    (rcube # None /\ length = 0) =>
        /\ DOMAIN rcube = 1..6
        /\ \A f \in 1..6 :
              /\ IsFace(rcube[f])
              /\ IsConst(rcube[f][1], corner[1])
              /\ IsConst(rcube[f][2], corner[2])
              /\ IsConst(rcube[f][3], corner[3])
        /\ rcube[1] = rcube[2] /\ rcube[3] = rcube[4] /\ rcube[5] = rcube[6]

C8_Witness == rcube # None /\ length = 0 /\ corner = <<2, 0, 1>>

\* C9: every tree accessor call precedes the first plot_surface call, so a
\* raising accessor leaves zero plot_surface calls issued.
C9_ReadsBeforeDraws ==
    /\ [](thrown # "none" => draws = <<>>)
    /\ [][accCalls' # accCalls => draws' = <<>>]_vars

C9_Witness ==
    /\ pc = "raised" /\ thrown # "none"
    /\ Len(tree) = 2 /\ Len(corners) = 2 /\ Len(lengths) = 2
    /\ draws = <<>>

====
